---- MODULE Spec2Model ----
(***************************************************************************)
(* Model of src/train.py: the fine-tuning script of PyTorch-ShuffleNetV2.  *)
(* The state machine follows train(args) from the construction of the      *)
(* network (line 120) to the end of the epoch loop (line 160), with        *)
(* train_one_epoch (lines 18-44) and evaluate (lines 47-62) unfolded into  *)
(* their batch loops.                                                      *)
(*                                                                         *)
(* Floating point numbers are modelled as follows.  Parameter values are   *)
(* integers modulo ValMod.  Losses are records that are either a finite    *)
(* natural number or one of the non-finite values nan, inf, -inf.  The     *)
(* running mean is an exact fraction num/den.  The cosine schedule is      *)
(* computed in fixed point with unit Scale.                                *)
(***************************************************************************)
EXTENDS Integers, Sequences, FiniteSets, TLC

\* ------------------------------------------------------------------ bounds
MaxEpochs == 2
MaxSamples == 2
MaxBatchSize == 2

\* Parameter values live in 0..ValMod-1.
ValMod == 2

\* ------------------------------------------------------- the classifier
\* Parameter names are sequences of characters, so that the substring test
\* of line 132 is computed and not assumed.
ConvW == <<"c", "1", ".", "w">>
FcW == <<"f", "c", ".", "w">>
FcB == <<"f", "c", ".", "b">>
Names == {ConvW, FcW, FcB}

\* The marker of the classification layer (line 132).
FC == <<"f", "c">>

Val == 0 .. (ValMod - 1)

\* Element count of every parameter of the freshly built network.
Numel == [n \in Names |-> IF n = FcB THEN 1 ELSE 2]

\* Values of the freshly built network (line 120).
FreshParams == [n \in Names |-> 1]

\* The kinds of validation samples: an input and its true label.
Samples == {[x |-> 0, label |-> 0], [x |-> 1, label |-> 1]}

\* Forward pass of the classifier on one input: the per-class scores.
Forward(p, x) == <<p[ConvW], (p[FcW] * x + p[FcB]) % ValMod>>

\* torch.max(pred, dim=1)[1]: index of the first maximal score, classes
\* numbered from 0.
ArgMax(scores) ==
    CHOOSE i \in 0 .. (Len(scores) - 1) :
        /\ \A j \in 0 .. (Len(scores) - 1) : scores[j + 1] <= scores[i + 1]
        /\ \A j \in 0 .. (i - 1) : scores[j + 1] < scores[i + 1]

\* 'sub in s' of Python for strings.
Contains(sub, s) ==
    \E i \in 1 .. (Len(s) - Len(sub) + 1) : SubSeq(s, i, i + Len(sub) - 1) = sub

\* ceil(n / b): the number of batches a DataLoader yields.
NumBatches(n, b) == (n + b - 1) \div b

\* ------------------------------------------------- the cosine schedule
\* Fixed-point unit of the float arithmetic of line 142: the real number r
\* is the integer r * Scale.
Scale == 10000

\* math.pi in fixed point.
PiScaled == 31416

\* Number of terms of the cosine series that are summed.
CosTerms == 6

\* The series 1 - x^2/2! + x^4/4! - ... for 0 <= x <= pi/2, from term k on;
\* term is the k-th term's magnitude.
RECURSIVE CosSeries(_, _, _)
CosSeries(x, k, term) ==
    IF k >= CosTerms THEN 0
    ELSE (IF k % 2 = 0 THEN term ELSE 0 - term)
         + CosSeries(x, k + 1,
                     ((((term * x) \div Scale) * x) \div Scale)
                        \div ((2 * k + 1) * (2 * k + 2)))

\* math.cos on [0, pi], reduced to [0, pi/2] by cos(x) = -cos(pi - x).
Cos(x) ==
    IF 2 * x > PiScaled THEN 0 - CosSeries(PiScaled - x, 0, Scale)
    ELSE CosSeries(x, 0, Scale)

\* lf without its floor term: ((1 + cos(x * pi / E)) / 2) * (1 - lrf).
lfNoFloor(x, E, r) ==
    (((Scale + Cos((x * PiScaled) \div E)) \div 2) * (Scale - r)) \div Scale

\* lf of line 142, for E # 0:
\*   ((1 + math.cos(x * math.pi / E)) / 2) * (1 - lrf) + lrf
lf(x, E, r) ==
    ((((Scale + Cos((x * PiScaled) \div E)) \div 2) * (Scale - r)) \div Scale) + r

\* Default of --lrf (line 169), in fixed point.
LrfDefault == 1000

\* The values of --lrf that are tried: the default, 1.0 and 1.5.
LrfVals == {LrfDefault, Scale, Scale + (Scale \div 2)}

\* ------------------------------------------------------ pretrained weights
\* What torch.load may return at line 125: a state dict (a mapping from
\* names to tensors) or a pickled module.  A tensor is its element count
\* and its value.
Entry(n, c, v) == [name |-> n, numel |-> c, val |-> v]
Other == <<"x", ".", "w">>
NoWeights == [kind |-> "none", entries |-> {}]
PreWeights ==
    { [kind |-> "dict", entries |-> {}],
      [kind |-> "dict", entries |-> {Entry(ConvW, 2, 0), Entry(FcW, 3, 0)}],
      [kind |-> "dict", entries |-> {Entry(ConvW, 2, 0), Entry(Other, 1, 0)}],
      [kind |-> "module", entries |-> {Entry(ConvW, 2, 0), Entry(FcW, 2, 0)}] }

\* Lines 126-127: the dict comprehension over pre_weights.items() with the
\* condition pre_weights.state_dict()[k].numel() == v.numel().  A module has
\* no items(); a state dict has no state_dict(), which is evaluated for the
\* first item.  Only an empty state dict gets through.
FilterWeights(pre) ==
    IF pre.kind # "dict" THEN [err |-> "AttributeError", dict |-> {}]
    ELSE IF pre.entries = {} THEN [err |-> "", dict |-> {}]
    ELSE [err |-> "AttributeError", dict |-> {}]

\* Line 128: net.load_state_dict(d, strict=False).  Names the network does
\* not have are ignored, names d does not have keep their value, and an
\* entry of another size is an error.
LoadStateDict(p, d) ==
    IF \E e \in d : e.name \in Names /\ e.numel # Numel[e.name]
    THEN [err |-> "RuntimeError", params |-> p]
    ELSE [err |-> "",
          params |-> [n \in Names |->
                        IF \E e \in d : e.name = n
                        THEN (CHOOSE e \in d : e.name = n).val
                        ELSE p[n]]]

\* ------------------------------------------------------------- the state
VARIABLES
    pc,             \* position in train(args)
    exit_code,      \* exit code of the process, -1 while it runs
    error,          \* the uncaught exception, "" when there is none
    train_num,      \* len(train_dataset)
    val_set,        \* the validation samples, in loader order
    batch_size,     \* args.batch_size
    weights,        \* os.path.exists(args.weights): "unread", "found", "missing"
    pre_weights,    \* what torch.load returned
    freeze_layers,  \* args.freeze_layers
    epochs,         \* args.epochs
    lrf,            \* args.lrf
    params,         \* the parameters of net
    requires_grad,  \* the trainable flag of every parameter
    grad,           \* the .grad of every parameter: <<>> is None, <<g>> a value
    pg,             \* the parameters given to the optimizer
    last_epoch,     \* scheduler.last_epoch
    lr_mult,        \* the factor the scheduler applies to the base lr
    epoch,          \* the loop variable of line 145
    step,           \* the loop variable of lines 26 and 56
    loss,           \* the loss of the current batch
    mean_loss,      \* the running mean of train_one_epoch
    sum_num,        \* the accumulator of evaluate
    acc,            \* <<sum_num, len(validate_dataset)>> of line 155
    ckpt,           \* the file ./model_data.pth
    loaded_params,  \* history: the parameters when weight loading was over
    trained_params, \* history: the parameters when train_one_epoch returned last
    eval_params,    \* history: the parameters when evaluate was entered
    loss_sum,       \* history: the sum of the finite losses of the current epoch
    log             \* history: the events of the run, in order

vars == <<pc, exit_code, error, train_num, val_set, batch_size, weights,
          pre_weights, freeze_layers, epochs, lrf, params, requires_grad,
          grad, pg, last_epoch, lr_mult, epoch, step, loss, mean_loss,
          sum_num, acc, ckpt, loaded_params, trained_params, eval_params,
          loss_sum, log>>

dataVars == <<train_num, val_set, batch_size>>
argVars == <<weights, pre_weights, freeze_layers, epochs, lrf>>
netVars == <<params, requires_grad, grad>>
schedVars == <<last_epoch, lr_mult>>
trainVars == <<step, loss, mean_loss, loss_sum, trained_params>>
evalVars == <<sum_num, acc, eval_params>>

\* Losses: the cross entropy is a finite number >= 0, or it is not finite.
NonFinite == {"nan", "inf", "-inf"}
Finite(v) == [kind |-> "finite", v |-> v]
LossVals == {Finite(v) : v \in {0, 1}} \cup {[kind |-> k, v |-> 0] : k \in NonFinite}

\* torch.isfinite
IsFinite(l) == l.kind = "finite"

\* torch.zeros(1) as a fraction.
ZeroMean == [fin |-> TRUE, num |-> 0, den |-> 1]

NoGrad == [n \in Names |-> <<>>]

ValSets == [1 .. MaxSamples -> Samples]

Init ==
    /\ pc = "load_weights"
    /\ exit_code = -1
    /\ error = ""
    /\ train_num = MaxSamples
    /\ val_set \in ValSets
    /\ batch_size \in 1 .. MaxBatchSize
    /\ weights = "unread"
    /\ pre_weights = NoWeights
    /\ freeze_layers = FALSE
    /\ epochs = 0
    /\ lrf = 0
    /\ params = FreshParams
    /\ requires_grad = [n \in Names |-> TRUE]
    /\ grad = NoGrad
    /\ pg = {}
    /\ last_epoch = 0
    /\ lr_mult = 0
    /\ epoch = 0
    /\ step = 0
    /\ loss = Finite(0)
    /\ mean_loss = ZeroMean
    /\ sum_num = 0
    /\ acc = <<0, 1>>
    /\ ckpt = [exists |-> FALSE, state |-> FreshParams]
    /\ loaded_params = FreshParams
    /\ trained_params = FreshParams
    /\ eval_params = FreshParams
    /\ loss_sum = 0
    /\ log = <<>>

\* An uncaught exception ends the process with exit code 1.
Crash(e) ==
    /\ pc' = "crashed"
    /\ error' = e
    /\ exit_code' = 1

\* ------------------------------------------------------------------ setup
\* Lines 123-128: load the pretrained weights when the path exists.
LoadWeights ==
    /\ pc = "load_weights"
    /\ \E found \in BOOLEAN, pre \in PreWeights :
        IF ~found
        THEN /\ weights' = "missing"
             /\ pc' = "freeze"
             /\ UNCHANGED <<pre_weights, params, loaded_params, error, exit_code>>
        ELSE /\ weights' = "found"
             /\ pre_weights' = pre
             /\ LET f == FilterWeights(pre)
                    r == LoadStateDict(params, f.dict)
                IN  IF f.err # ""
                    THEN Crash(f.err) /\ UNCHANGED <<params, loaded_params>>
                    ELSE IF r.err # ""
                    THEN Crash(r.err) /\ UNCHANGED <<params, loaded_params>>
                    ELSE /\ params' = r.params
                         /\ loaded_params' = r.params
                         /\ pc' = "freeze"
                         /\ UNCHANGED <<error, exit_code>>
    /\ UNCHANGED <<dataVars, freeze_layers, epochs, lrf, requires_grad, grad, pg,
                   schedVars, epoch, trainVars, evalVars, ckpt, log>>

\* Freeze with the test of line 132 inverted: the parameters with 'fc' in
\* their name are the ones frozen.
FreezeInverted ==
    /\ pc = "freeze"
    /\ \E flag \in BOOLEAN :
        /\ freeze_layers' = flag
        /\ requires_grad' =
             IF flag
             THEN [n \in Names |-> IF Contains(FC, n) THEN FALSE ELSE requires_grad[n]]
             ELSE requires_grad
    /\ pc' = "build_optimizer"
    /\ UNCHANGED <<exit_code, error, dataVars, weights, pre_weights, epochs, lrf,
                   params, grad, pg, schedVars, epoch, trainVars, evalVars, ckpt,
                   loaded_params, log>>

\* Freeze that reads the flag and freezes nothing.
FreezeNothing ==
    /\ pc = "freeze"
    /\ \E flag \in BOOLEAN : freeze_layers' = flag
    /\ pc' = "build_optimizer"
    /\ UNCHANGED <<exit_code, error, dataVars, weights, pre_weights, epochs, lrf,
                   netVars, pg, schedVars, epoch, trainVars, evalVars, ckpt,
                   loaded_params, log>>

\* Lines 129-133: with --freeze-layers, every parameter without 'fc' in its
\* name stops requiring a gradient.
Freeze ==
    /\ pc = "freeze"
    /\ \E flag \in BOOLEAN :
        /\ freeze_layers' = flag
        /\ requires_grad' =
             IF flag
             THEN [n \in Names |-> IF ~Contains(FC, n) THEN FALSE ELSE requires_grad[n]]
             ELSE requires_grad
    /\ pc' = "build_optimizer"
    /\ UNCHANGED <<exit_code, error, dataVars, weights, pre_weights, epochs, lrf,
                   params, grad, pg, schedVars, epoch, trainVars, evalVars, ckpt,
                   loaded_params, log>>

\* Lines 135-143: the optimizer over the parameters that require a gradient,
\* and the LambdaLR scheduler, whose constructor evaluates lf(0): a division
\* by args.epochs.
BuildOptimizer ==
    /\ pc = "build_optimizer"
    /\ pg' = {n \in Names : requires_grad[n]}
    /\ \E E \in 0 .. MaxEpochs, r \in LrfVals :
        /\ epochs' = E
        /\ lrf' = r
        /\ IF E = 0
           THEN Crash("ZeroDivisionError") /\ UNCHANGED <<schedVars, epoch>>
           ELSE /\ last_epoch' = 0
                /\ lr_mult' = lf(0, E, r)
                /\ epoch' = 0
                /\ pc' = "epoch_loop"
                /\ UNCHANGED <<error, exit_code>>
    /\ UNCHANGED <<dataVars, weights, pre_weights, freeze_layers, netVars,
                   trainVars, evalVars, ckpt, loaded_params, log>>

\* ------------------------------------------------------ train_one_epoch
Ev(e) == [ev |-> e, epoch |-> epoch, step |-> step]

\* optimizer.zero_grad(): the gradients of the optimizer's parameters are
\* dropped.
ZeroGrad(g, opt) == [n \in Names |-> IF n \in opt THEN <<>> ELSE g[n]]

\* The batches a training loader yields, by the gradient they give: zero,
\* or one on every parameter.
BatchKinds == {"flat", "steep"}

\* The gradient loss.backward() computes for parameter n on a batch of kind d.
BatchGrad(n, d) == IF d = "steep" THEN 1 ELSE 0

\* loss.backward() (line 32): the gradient of every parameter that requires
\* one is added to its .grad.
Backward(g, d) ==
    [n \in Names |->
        IF requires_grad[n]
        THEN <<((IF g[n] = <<>> THEN 0 ELSE g[n][1]) + BatchGrad(n, d)) % ValMod>>
        ELSE g[n]]

\* optimizer.step() (line 41): every parameter of the optimizer that has a
\* gradient moves against it.
SGDStep(p, g, opt) ==
    [n \in Names |->
        IF n \in opt /\ g[n] # <<>>
        THEN (p[n] + ValMod - g[n][1]) % ValMod
        ELSE p[n]]

\* A running mean that weighs the old mean like one loss:
\* (mean_loss + loss) / 2.
MeanUpdateHalf(m, t, l) ==
    IF ~m.fin \/ ~IsFinite(l)
    THEN [fin |-> FALSE, num |-> 0, den |-> 1]
    ELSE [fin |-> TRUE, num |-> m.num + l.v * m.den, den |-> m.den * 2]

\* Line 33: mean_loss = (mean_loss * step + loss.detach()) / (step + 1)
MeanUpdate(m, t, l) ==
    IF ~m.fin \/ ~IsFinite(l)
    THEN [fin |-> FALSE, num |-> 0, den |-> 1]
    ELSE [fin |-> TRUE, num |-> m.num * t + l.v * m.den, den |-> m.den * (t + 1)]

TrainBatches == NumBatches(train_num, batch_size)
ValBatches == NumBatches(Len(val_set), batch_size)

\* Line 145, and on entry of the body lines 19-24 of train_one_epoch.
EpochLoop ==
    /\ pc = "epoch_loop"
    /\ IF epoch < epochs
       THEN /\ mean_loss' = ZeroMean
            /\ grad' = ZeroGrad(grad, pg)
            /\ step' = 0
            /\ loss_sum' = 0
            /\ pc' = "batch"
            /\ UNCHANGED exit_code
       ELSE /\ pc' = "done"
            /\ exit_code' = 0
            /\ UNCHANGED <<mean_loss, grad, step, loss_sum>>
    /\ UNCHANGED <<error, dataVars, argVars, params, requires_grad, pg, schedVars,
                   epoch, loss, trained_params, evalVars, ckpt,
                   loaded_params, log>>

\* Lines 26-35: forward pass, loss, backward pass and running mean of one
\* training batch.
TrainBatch ==
    /\ pc = "batch"
    /\ step < TrainBatches
    /\ \E l \in LossVals, d \in BatchKinds :
        /\ loss' = l
        /\ grad' = Backward(grad, d)
        /\ mean_loss' = MeanUpdate(mean_loss, step, l)
        /\ loss_sum' = IF IsFinite(l) THEN loss_sum + l.v ELSE loss_sum
        /\ log' = Append(log, Ev(IF IsFinite(l) THEN "loss" ELSE "bad_loss"))
    /\ pc' = "check"
    /\ UNCHANGED <<exit_code, error, dataVars, argVars, params, requires_grad, pg,
                   schedVars, epoch, step, trained_params, evalVars, ckpt,
                   loaded_params>>

\* TrainCheck without the test of line 37: the update is applied whatever
\* the loss is.
TrainCheckNoGuard ==
    /\ pc = "check"
    /\ params' = SGDStep(params, grad, pg)
    /\ grad' = ZeroGrad(grad, pg)
    /\ step' = step + 1
    /\ log' = Append(log, Ev("opt"))
    /\ pc' = "batch"
    /\ UNCHANGED <<exit_code, error, dataVars, argVars, requires_grad, pg, schedVars,
                   epoch, loss, mean_loss, loss_sum, trained_params,
                   evalVars, ckpt, loaded_params>>

\* TrainCheck that writes the checkpoint before it exits.
TrainCheckSaveOnExit ==
    /\ pc = "check"
    /\ IF ~IsFinite(loss)
       THEN /\ pc' = "exited"
            /\ exit_code' = 1
            /\ ckpt' = [exists |-> TRUE, state |-> params]
            /\ log' = Append(log, Ev("exit"))
            /\ UNCHANGED <<params, grad, step>>
       ELSE /\ params' = SGDStep(params, grad, pg)
            /\ grad' = ZeroGrad(grad, pg)
            /\ step' = step + 1
            /\ log' = Append(log, Ev("opt"))
            /\ pc' = "batch"
            /\ UNCHANGED <<exit_code, ckpt>>
    /\ UNCHANGED <<error, dataVars, argVars, requires_grad, pg, schedVars, epoch,
                   loss, mean_loss, loss_sum, trained_params, evalVars,
                   loaded_params>>

\* Lines 37-42: exit on a loss that is not finite, else one optimizer update
\* and the gradients cleared.
TrainCheck ==
    /\ pc = "check"
    /\ IF ~IsFinite(loss)
       THEN /\ pc' = "exited"
            /\ exit_code' = 1
            /\ log' = Append(log, Ev("exit"))
            /\ UNCHANGED <<params, grad, step>>
       ELSE /\ params' = SGDStep(params, grad, pg)
            /\ grad' = ZeroGrad(grad, pg)
            /\ step' = step + 1
            /\ log' = Append(log, Ev("opt"))
            /\ pc' = "batch"
            /\ UNCHANGED exit_code
    /\ UNCHANGED <<error, dataVars, argVars, requires_grad, pg, schedVars, epoch,
                   loss, mean_loss, loss_sum, trained_params, evalVars,
                   ckpt, loaded_params>>

\* TrainReturn of a loop that forgets scheduler.step().
TrainReturnNoSched ==
    /\ pc = "batch"
    /\ step = TrainBatches
    /\ loss_sum' = 0
    /\ trained_params' = params
    /\ loss' = Finite(0)
    /\ mean_loss' = ZeroMean
    /\ log' = Append(log, Ev("train"))
    /\ pc' = "evaluate"
    /\ UNCHANGED <<exit_code, error, dataVars, argVars, netVars, pg, schedVars,
                   epoch, step, evalVars, ckpt, loaded_params>>

\* Line 44, back in train at line 146: mean_loss is returned, to a variable
\* of train that is never read, and the locals of train_one_epoch are gone.
TrainReturn ==
    /\ pc = "batch"
    /\ step = TrainBatches
    /\ loss_sum' = 0
    /\ trained_params' = params
    /\ loss' = Finite(0)
    /\ mean_loss' = ZeroMean
    /\ log' = Append(log, Ev("train"))
    /\ pc' = "sched_step"
    /\ UNCHANGED <<exit_code, error, dataVars, argVars, netVars, pg, schedVars,
                   epoch, step, evalVars, ckpt, loaded_params>>

\* Line 148: scheduler.step() of LambdaLR.
SchedulerStep ==
    /\ pc = "sched_step"
    /\ last_epoch' = last_epoch + 1
    /\ lr_mult' = lf(last_epoch + 1, epochs, lrf)
    /\ log' = Append(log, Ev("sched"))
    /\ pc' = "evaluate"
    /\ UNCHANGED <<exit_code, error, dataVars, argVars, netVars, pg, epoch,
                   trainVars, evalVars, ckpt, loaded_params>>

\* --------------------------------------------------------------- evaluate
\* Lines 58-60 on the samples of one batch: how many arg-max predictions
\* equal the label.
BatchCorrect(p, lo, hi) ==
    Cardinality({i \in lo .. hi :
                    ArgMax(Forward(p, val_set[i].x)) = val_set[i].label})

Min(a, b) == IF a < b THEN a ELSE b

\* Lines 49-54.
EvalStart ==
    /\ pc = "evaluate"
    /\ sum_num' = 0
    /\ step' = 0
    /\ eval_params' = params
    /\ pc' = "eval_batch"
    /\ UNCHANGED <<exit_code, error, dataVars, argVars, netVars, pg, schedVars,
                   epoch, loss, mean_loss, loss_sum, trained_params, acc,
                   ckpt, loaded_params, log>>

\* EvalBatch with = for += at line 60: the count of the batch replaces the
\* sum.
EvalBatchOverwrite ==
    /\ pc = "eval_batch"
    /\ step < ValBatches
    /\ sum_num' = BatchCorrect(params, step * batch_size + 1,
                               Min((step + 1) * batch_size, Len(val_set)))
    /\ step' = step + 1
    /\ UNCHANGED <<pc, exit_code, error, dataVars, argVars, netVars, pg, schedVars,
                   epoch, loss, mean_loss, loss_sum, trained_params, acc,
                   eval_params, ckpt, loaded_params, log>>

\* Lines 56-60: one validation batch.
EvalBatch ==
    /\ pc = "eval_batch"
    /\ step < ValBatches
    /\ sum_num' = sum_num + BatchCorrect(params, step * batch_size + 1,
                                         Min((step + 1) * batch_size, Len(val_set)))
    /\ step' = step + 1
    /\ UNCHANGED <<pc, exit_code, error, dataVars, argVars, netVars, pg, schedVars,
                   epoch, loss, mean_loss, loss_sum, trained_params, acc,
                   eval_params, ckpt, loaded_params, log>>

\* Line 62, and lines 155-156 of train: the accuracy.
EvalReturn ==
    /\ pc = "eval_batch"
    /\ step = ValBatches
    /\ acc' = <<sum_num, Len(val_set)>>
    /\ log' = Append(log, Ev("eval"))
    /\ pc' = "save"
    /\ UNCHANGED <<exit_code, error, dataVars, argVars, netVars, pg, schedVars,
                   epoch, trainVars, sum_num, eval_params, ckpt, loaded_params>>

\* Line 158: torch.save(net.state_dict(), save_path), and the next epoch.
SaveCheckpoint ==
    /\ pc = "save"
    /\ ckpt' = [exists |-> TRUE, state |-> params]
    /\ log' = Append(log, Ev("save"))
    /\ epoch' = epoch + 1
    /\ pc' = "epoch_loop"
    /\ UNCHANGED <<exit_code, error, dataVars, argVars, netVars, pg, schedVars,
                   trainVars, evalVars, loaded_params>>

Next ==
    \/ LoadWeights
    \/ Freeze
    \/ BuildOptimizer
    \/ EpochLoop
    \/ TrainBatch
    \/ TrainCheck
    \/ TrainReturn
    \/ SchedulerStep
    \/ EvalStart
    \/ EvalBatch
    \/ EvalReturn
    \/ SaveCheckpoint

Spec == Init /\ [][Next]_vars

\* ------------------------------------------------------------ properties
\* Number of events e in the log.
Count(e) == Cardinality({i \in DOMAIN log : log[i].ev = e})

\* Number of events e of epoch k in the log.
CountIn(e, k) == Cardinality({i \in DOMAIN log : log[i].ev = e /\ log[i].epoch = k})

\* C1: when the loss of a batch is not finite the process exits at once with
\* a non-zero code: after that loss nothing happens but the exit - no
\* optimizer update, no training batch, no schedule step, no evaluation - and
\* the parameters are those the batch started with.
C1_FailFast ==
    /\ \A i \in DOMAIN log :
          log[i].ev = "bad_loss" =>
             /\ i >= Len(log) - 1
             /\ i = Len(log) => pc = "check" /\ ~IsFinite(loss) /\ exit_code = -1
             /\ i = Len(log) - 1 =>
                   /\ log[i + 1].ev = "exit"
                   /\ pc = "exited"
                   /\ exit_code # 0 /\ exit_code # -1
             /\ CountIn("opt", log[i].epoch) = log[i].step
    /\ pc = "check" /\ ~IsFinite(loss) => log[Len(log)].ev = "bad_loss"
    /\ pc = "exited" => Count("bad_loss") = 1

\* C1 witness: the run has exited on the loss of batch 1 of epoch 1.
C1_Witness ==
    /\ pc = "exited"
    /\ exit_code = 1
    /\ epoch = 1
    /\ step = 1
    /\ loss.kind = "nan"

\* C2: when the training of epoch e exits on a loss that is not finite, no
\* checkpoint was written for epoch e: e checkpoints were written, the file
\* holds the parameters epoch e-1 ended with, and there is no file when e = 0.
C2_NoCheckpointOnAbort ==
    pc = "exited" =>
        /\ Count("save") = epoch
        /\ CountIn("save", epoch) = 0
        /\ epoch = 0 => ~ckpt.exists
        /\ epoch > 0 => ckpt.exists /\ ckpt.state = trained_params

\* C2 witness: epoch 1 was aborted after an update that changed the
\* parameters, and the file still holds those of epoch 0.
C2_Witness ==
    /\ pc = "exited"
    /\ epoch = 1
    /\ ckpt.exists
    /\ ckpt.state = trained_params
    /\ params # ckpt.state

\* The events of the epoch loop of train, in order.
OrchLog == SelectSeq(log, LAMBDA e : e.ev \in {"train", "sched", "eval", "save"})
Pattern == <<"train", "sched", "eval", "save">>

\* C3: every epoch runs training pass, schedule step, evaluation pass and
\* checkpoint write in this order, once each; the training pass is over all
\* batches; after k epochs the schedule index is k, k checkpoints were
\* written and the file holds the current parameters.
C3_EpochOrder ==
    /\ \A i \in DOMAIN OrchLog :
          /\ OrchLog[i].ev = Pattern[((i - 1) % 4) + 1]
          /\ OrchLog[i].epoch = (i - 1) \div 4
    /\ \A i \in DOMAIN log :
          log[i].ev = "train" => CountIn("opt", log[i].epoch) = TrainBatches
    /\ last_epoch = Count("sched")
    /\ pc = "epoch_loop" =>
          /\ Len(OrchLog) = 4 * epoch
          /\ last_epoch = epoch
          /\ Count("save") = epoch
          /\ epoch > 0 => ckpt.exists /\ ckpt.state = params
    /\ pc = "done" => epoch = epochs /\ exit_code = 0 /\ Len(OrchLog) = 4 * epochs

\* C3 witness: a run of two epochs is over.
C3_Witness ==
    /\ pc = "done"
    /\ epochs = 2
    /\ Count("save") = 2
    /\ last_epoch = 2

\* The parameters the weight transfer is specified to leave: the value of
\* the source for a name both have with the same element count, the fresh
\* value for the rest.
Transferred(src) ==
    [n \in Names |->
        IF \E e \in src : e.name = n /\ e.numel = Numel[n]
        THEN (CHOOSE e \in src : e.name = n /\ e.numel = Numel[n]).val
        ELSE FreshParams[n]]

\* C4: weight transfer from a state dict loads exactly the entries whose name
\* the network has with the same element count, leaves the other parameters
\* at their fresh value, and raises no error.
C4_WeightTransfer ==
    weights = "found" /\ pre_weights.kind = "dict" =>
        /\ error \notin {"AttributeError", "RuntimeError"}
        /\ loaded_params = Transferred(pre_weights.entries)

\* C5: when the weights path does not exist the run fails at setup, before
\* the optimizer is built and before any training batch.
C5_MissingWeightsFail ==
    weights = "missing" =>
        /\ pc = "crashed"
        /\ exit_code # 0
        /\ pg = {}
        /\ log = <<>>

\* The optimizer of line 138 exists.
OptimizerBuilt ==
    /\ pc \notin {"load_weights", "freeze", "build_optimizer"}
    /\ pc = "crashed" => error = "ZeroDivisionError"

\* C6: with the freeze flag on, once the freeze policy has run the parameters
\* without 'fc' in their name are not trainable and those with 'fc' are; the
\* optimizer gets exactly the trainable parameters.
C6_FreezePolicy ==
    /\ pc \notin {"load_weights", "freeze", "crashed"} /\ freeze_layers =>
          /\ requires_grad[ConvW] = FALSE
          /\ requires_grad[FcW] = TRUE
          /\ requires_grad[FcB] = TRUE
    /\ OptimizerBuilt => pg = {n \in Names : requires_grad[n]}
    /\ OptimizerBuilt /\ freeze_layers => pg = {FcW, FcB}

\* C6 witness: training runs with the convolution frozen.
C6_Witness ==
    /\ pc = "check"
    /\ freeze_layers
    /\ pg = {FcW, FcB}
    /\ ~requires_grad[ConvW]

\* The scheduler of line 143 exists.
Scheduled == pc \notin {"load_weights", "freeze", "build_optimizer", "crashed"}

\* The position is inside train_one_epoch.
Training == pc \in {"batch", "check", "exited"}

\* C7 as stated: for every epoch index e of [0, E), lf(e) is in (lrf, 1],
\* lf(0) = 1 and lf(e+1) <= lf(e); the multiplier in effect while epoch k is
\* trained is lf(k).
C7_AsStated ==
    Scheduled =>
        /\ \A e \in 0 .. (epochs - 1) :
              /\ lf(e, epochs, lrf) > lrf
              /\ lf(e, epochs, lrf) <= Scale
              /\ lf(e + 1, epochs, lrf) <= lf(e, epochs, lrf)
        /\ lf(0, epochs, lrf) = Scale
        /\ Training => last_epoch = epoch /\ lr_mult = lf(epoch, epochs, lrf)

\* C7 amended: the same for a floor ratio lrf < 1; for any lrf the
\* multiplier in effect while epoch k is trained is lf(k), and lf(0) = 1.
C7_Schedule ==
    Scheduled =>
        /\ lrf < Scale =>
              \A e \in 0 .. (epochs - 1) :
                 /\ lf(e, epochs, lrf) > lrf
                 /\ lf(e, epochs, lrf) <= Scale
                 /\ lf(e + 1, epochs, lrf) <= lf(e, epochs, lrf)
        /\ lf(0, epochs, lrf) = Scale
        /\ Training => last_epoch = epoch /\ lr_mult = lf(epoch, epochs, lrf)
        /\ Training /\ epoch = 0 => lr_mult = Scale

\* C7 witness: epoch 1 of 2 is trained with a multiplier strictly between
\* the floor 0.1 and 1.
C7_Witness ==
    /\ pc = "check"
    /\ epochs = 2
    /\ epoch = 1
    /\ lrf = LrfDefault
    /\ lr_mult > lrf
    /\ lr_mult < Scale

\* C8: the running mean is zero when an epoch starts; after t+1 batches with
\* finite losses it is their sum divided by t+1; train_one_epoch returns the
\* mean over all batches of the epoch.
C8_RunningMean ==
    /\ pc = "batch" /\ step = 0 => mean_loss = ZeroMean
    /\ pc = "batch" => mean_loss.fin /\ mean_loss.num * step = loss_sum * mean_loss.den
    /\ pc = "check" /\ IsFinite(loss) =>
          mean_loss.fin /\ mean_loss.num * (step + 1) = loss_sum * mean_loss.den
    /\ pc = "batch" /\ step = TrainBatches =>
          mean_loss.num * TrainBatches = loss_sum * mean_loss.den

\* C8 witness: the second epoch is about to return the mean 1/2 of the
\* losses of its two batches.
C8_Witness ==
    /\ pc = "batch"
    /\ epoch = 1
    /\ step = 2
    /\ TrainBatches = 2
    /\ loss_sum = 1
    /\ mean_loss.num * 2 = mean_loss.den

\* Number of validation samples the parameters p classify right.
Correct(p) ==
    Cardinality({i \in DOMAIN val_set :
                    ArgMax(Forward(p, val_set[i].x)) = val_set[i].label})

\* C9: evaluate returns the number k of validation samples whose arg-max
\* class is the label, 0 <= k <= n, however the samples are batched; the
\* accuracy is k/n; the parameters are the same before and after.
C9_Evaluate ==
    /\ pc = "eval_batch" => params = eval_params /\ sum_num <= Len(val_set)
    /\ pc = "save" =>
          /\ acc = <<Correct(eval_params), Len(val_set)>>
          /\ acc[1] >= 0 /\ acc[1] <= acc[2]
          /\ params = eval_params
          /\ params = trained_params

\* C9 witness: one of two samples, each in a batch of its own, was right.
C9_Witness ==
    /\ pc = "save"
    /\ Len(val_set) = 2
    /\ batch_size = 1
    /\ acc = <<1, 2>>

\* C10: with the freeze flag on the parameters without 'fc' in their name
\* keep the value they had after weight transfer, in the network and in
\* every checkpoint; an optimizer update changes trainable parameters only;
\* every batch with a finite loss is followed by one optimizer update, and
\* the gradients are cleared before the next batch.
C10_FrozenUnchanged ==
    /\ Scheduled /\ freeze_layers =>
          /\ params[ConvW] = loaded_params[ConvW]
          /\ ckpt.exists => ckpt.state[ConvW] = loaded_params[ConvW]
    /\ Scheduled =>
          \A n \in Names : ~requires_grad[n] => params[n] = loaded_params[n]
    /\ \A i \in DOMAIN log :
          log[i].ev = "loss" /\ i < Len(log) =>
             /\ log[i + 1].ev = "opt"
             /\ log[i + 1].epoch = log[i].epoch
             /\ log[i + 1].step = log[i].step
    /\ pc \notin {"check", "exited"} => Count("opt") = Count("loss")
    /\ pc = "batch" => grad = NoGrad

\* C10 witness: a checkpoint was written after updates that changed the
\* classification layer and left the frozen convolution alone.
C10_Witness ==
    /\ pc = "epoch_loop"
    /\ freeze_layers
    /\ ckpt.exists
    /\ ckpt.state[FcB] # loaded_params[FcB]
    /\ ckpt.state[ConvW] = loaded_params[ConvW]
    /\ Count("opt") >= 2

====
